---------------------------- MODULE Spec2Model ----------------------------
(***************************************************************************)
(* A model of the sky-sql flight-delay tool: the data access layer of      *)
(* src/data.py (class FlightData) and the handlers of src/main.py that     *)
(* aggregate and print what it returns.                                    *)
(*                                                                         *)
(* Strings are sequences of one-character strings.  A nullable integer     *)
(* column holds a cell [t, v] with t in {"NULL", "INT", "TEXT"}; a         *)
(* nullable string column holds a cell [t, s] with t in {"NULL", "STR"}.   *)
(***************************************************************************)
EXTENDS Integers, Sequences, FiniteSets, TLC

VARIABLES
    db,        \* the store: [flights, airlines, airports], read-only
    pc,        \* where the running DAL call is
    call,      \* the running DAL call: [op, text, keys, args]
    conn,      \* the connection the with-block of _execute_query holds, 0: none
    open,      \* the connections that are open
    closed,    \* the connections that were closed
    nextConn,  \* the next connection the engine creates
    cursor,    \* the rows the executed statement produced
    result,    \* what the call returns
    raised,    \* the exception that leaves the call, "none": none
    reported,  \* what the call printed about a failure, "none": nothing
    failedAt,  \* the stage of the call that failed, "none": none
    sent,      \* the statements the running call or handler sent to the store
    acquired,  \* the connections the running call acquired
    ncalls,    \* the number of DAL calls made
    handler,   \* the handler of main.py that ran
    results,   \* the rows the handler got from the DAL
    filter,    \* print_results' filter_delay_only
    idx,       \* the row print_results is at
    out,       \* the lines printed
    chart      \* the metric rows handed to the plot or the map

vars == <<db, pc, call, conn, open, closed, nextConn, cursor, result, raised,
          reported, failedAt, sent, acquired, ncalls, handler, results, filter, idx, out,
          chart>>

dalVars == <<pc, call, conn, open, closed, nextConn, cursor, result, raised,
             reported, failedAt, sent, acquired, ncalls>>

mainVars == <<handler, results, filter, idx, out, chart>>

-----------------------------------------------------------------------------
(* Bounds of the model *)

MaxCalls == 2        \* DAL calls in one run
MaxFragLen == 3      \* length of an airline or airport fragment
MaxFlights == 3      \* flights in a store the handlers aggregate
MaxTimeLen == 4      \* characters of a DEPARTURE_TIME
MaxRows == 3         \* flights in a store whose rows are printed

-----------------------------------------------------------------------------
(* Cells *)

Null == [t |-> "NULL", v |-> 0]
IntCell(n) == [t |-> "INT", v |-> n]
TextCell == [t |-> "TEXT", v |-> 0]
StrCell(s) == [t |-> "STR", s |-> s]

\* SQL: x IS NOT NULL
IsNotNull(x) == x.t # "NULL"

\* SQL: x > 0 in COUNT(CASE WHEN x > 0 THEN 1 END); NULL > 0 is NULL, and
\* SQLite orders every TEXT value above every number
GreaterThanZero(x) ==
    \/ x.t = "INT" /\ x.v > 0
    \/ x.t = "TEXT"

RECURSIVE SeqsUpTo(_, _)
\* every sequence over S of length at most n
SeqsUpTo(S, n) ==
    IF n = 0 THEN {<<>>}
    ELSE LET shorter == SeqsUpTo(S, n - 1)
         IN  shorter \cup {Append(s, x) : s \in shorter, x \in S}

-----------------------------------------------------------------------------
(* LOWER and LIKE of SQLite *)

UpperChars == <<"D", "E">>
LowerChars == <<"d", "e">>

LowerChar(ch) ==
    IF \E i \in DOMAIN UpperChars : UpperChars[i] = ch
    THEN LowerChars[CHOOSE i \in DOMAIN UpperChars : UpperChars[i] = ch]
    ELSE ch

\* LOWER(s)
Lower(s) == [i \in DOMAIN s |-> LowerChar(s[i])]

RECURSIVE Like(_, _)
\* s LIKE pattern: % matches any run of characters, _ matches one character,
\* every other character matches itself; the whole of s must be matched
Like(s, pattern) ==
    IF pattern = <<>> THEN s = <<>>
    ELSE IF Head(pattern) = "%"
         THEN \/ Like(s, Tail(pattern))
              \/ s # <<>> /\ Like(Tail(s), pattern)
    ELSE /\ s # <<>>
         /\ Head(pattern) = "_" \/ Head(pattern) = Head(s)
         /\ Like(Tail(s), Tail(pattern))

\* LOWER(column) LIKE LOWER(:param)
LowerLikeLower(column, param) == Like(Lower(column), Lower(param))

-----------------------------------------------------------------------------
(* Python integers and datetime(year, month, day) *)

INT_MAX == 2147483647
MINYEAR == 1
MAXYEAR == 9999

\* A Python int is unbounded: [hi, lo] stands for hi * 2^31 + lo with
\* 0 <= lo <= INT_MAX; it fits a C int iff hi is 0 or -1.
PyInt(n) == IF n >= 0 THEN [hi |-> 0, lo |-> n] ELSE [hi |-> -1, lo |-> (n + INT_MAX) + 1]
FitsCInt(n) == n.hi \in {-1, 0}
CIntValue(n) == IF n.hi = 0 THEN n.lo ELSE (n.lo - INT_MAX) - 1

IsLeap(year) == year % 4 = 0 /\ (year % 100 # 0 \/ year % 400 = 0)

DaysInMonth(year, month) ==
    IF month = 2 THEN (IF IsLeap(year) THEN 29 ELSE 28)
    ELSE IF month \in {4, 6, 9, 11} THEN 30
    ELSE 31

\* datetime(year, month, day): the arguments are converted to C ints
\* (OverflowError), then range-checked (ValueError)
DatetimeNew(year, month, day) ==
    IF ~(FitsCInt(year) /\ FitsCInt(month) /\ FitsCInt(day)) THEN "OverflowError"
    ELSE LET y == CIntValue(year)
             m == CIntValue(month)
             d == CIntValue(day)
         IN  IF y < MINYEAR \/ y > MAXYEAR THEN "ValueError"
             ELSE IF m < 1 \/ m > 12 THEN "ValueError"
             ELSE IF d < 1 \/ d > DaysInMonth(y, m) THEN "ValueError"
             ELSE "ok"

-----------------------------------------------------------------------------
(* The store *)

DelayColumns == <<"DEPARTURE_DELAY", "AIRLINE_DELAY", "WEATHER_DELAY",
                  "LATE_AIRCRAFT_DELAY", "SECURITY_DELAY", "AIR_SYSTEM_DELAY",
                  "ARRIVAL_DELAY">>

\* a flights row; present: the delay columns that are not NULL
Flight(id, day, month, year, airline, origin, destination, time, delay, present) ==
    [ID |-> id, DAY |-> day, MONTH |-> month, YEAR |-> year, AIRLINE |-> airline,
     ORIGIN_AIRPORT |-> origin, DESTINATION_AIRPORT |-> destination,
     DEPARTURE_TIME |-> time,
     DEPARTURE_DELAY |-> IF "DEPARTURE_DELAY" \in present THEN delay ELSE Null,
     AIRLINE_DELAY |-> IF "AIRLINE_DELAY" \in present THEN IntCell(0) ELSE Null,
     WEATHER_DELAY |-> IF "WEATHER_DELAY" \in present THEN IntCell(0) ELSE Null,
     LATE_AIRCRAFT_DELAY |-> IF "LATE_AIRCRAFT_DELAY" \in present THEN IntCell(7) ELSE Null,
     SECURITY_DELAY |-> IF "SECURITY_DELAY" \in present THEN IntCell(0) ELSE Null,
     AIR_SYSTEM_DELAY |-> IF "AIR_SYSTEM_DELAY" \in present THEN IntCell(3) ELSE Null,
     ARRIVAL_DELAY |-> IF "ARRIVAL_DELAY" \in present THEN IntCell(-2) ELSE Null]

DED == <<"D", "E", "D">>
EDE == <<"E", "D", "E">>
DDE == <<"D", "D", "E">>

StoreAirlines ==
    << [ID |-> 1, AIRLINE |-> <<"D", "e", "d">>],
       [ID |-> 2, AIRLINE |-> <<"E", "d">>] >>

StoreAirports ==
    << [IATA_CODE |-> DED, AIRPORT |-> <<"D">>, LATITUDE |-> IntCell(28), LONGITUDE |-> IntCell(77)],
       [IATA_CODE |-> EDE, AIRPORT |-> <<"E">>, LATITUDE |-> IntCell(59), LONGITUDE |-> IntCell(30)],
       [IATA_CODE |-> DDE, AIRPORT |-> <<"d">>, LATITUDE |-> Null, LONGITUDE |-> Null] >>

\* the patterns of NULLs in the delay columns: none present, each one alone,
\* the departure delay with each of the others, all present
PresentPatterns ==
    <<{}>> \o [i \in 1..7 |-> {DelayColumns[i]}]
           \o [i \in 1..6 |-> {"DEPARTURE_DELAY", DelayColumns[i + 1]}]
           \o << {DelayColumns[i] : i \in 1..7} >>

DelayValues == <<IntCell(15), IntCell(-5), IntCell(0)>>
Dates == << <<29, 2, 2024>>, <<31, 12, 2023>>, <<1, 1, 2000>> >>

\* the store the DAL is run against: every pattern of NULLs under each airline
DalFlight(i) ==
    LET p == ((i - 1) % Len(PresentPatterns)) + 1
        a == ((i - 1) \div Len(PresentPatterns)) + 1
        date == Dates[(i % 3) + 1]
    IN  Flight(i, date[1], date[2], date[3], a,
               StrCell(IF a = 1 THEN DED ELSE EDE), StrCell(IF a = 1 THEN EDE ELSE DED),
               StrCell(<<"0", "9", "3", "0">>), DelayValues[(i % 3) + 1],
               PresentPatterns[p])

DalStore ==
    [flights |-> [i \in 1..(2 * Len(PresentPatterns)) |-> DalFlight(i)],
     airlines |-> StoreAirlines,
     airports |-> StoreAirports]

-----------------------------------------------------------------------------
(* The statements and what the store answers *)

QUERY_FLIGHT_BY_ID == <<"SELECT ... FROM flights JOIN airlines ... WHERE flights.ID = :id">>
QUERY_FLIGHT_BY_DATE == <<"SELECT ... FROM flights JOIN airlines ... WHERE flights.day = :day AND flights.month = :month AND flights.year = :year">>
QUERY_DELAYED_FLIGHT_BY_AIRLINE == <<"SELECT ... FROM flights JOIN airlines ... WHERE DELAY IS NOT NULL AND (... OR ...) AND LOWER(airlines.AIRLINE) LIKE LOWER(:airline)">>
QUERY_DELAYED_FLIGHT_BY_AIRPORT == <<"SELECT ... FROM flights JOIN airports ... WHERE (DELAY IS NOT NULL OR ... OR ...) AND LOWER(airports.IATA_CODE) LIKE LOWER(:airport)">>
QUERY_PERCENTAGE_DELAYED_BY_AIRLINE == <<"SELECT airlines.AIRLINE, COUNT(CASE ...), COUNT(*) FROM airlines JOIN flights ... GROUP BY airlines.AIRLINE">>
QUERY_PERCENTAGE_DELAYED_BY_HOUR == <<"SELECT DEPARTURE_TIME, DEPARTURE_DELAY FROM flights WHERE DEPARTURE_TIME IS NOT NULL AND DEPARTURE_DELAY IS NOT NULL">>
QUERY_HEATMAP_DELAY == <<"SELECT ORIGIN_AIRPORT, DESTINATION_AIRPORT, COUNT(*), COUNT(CASE ...) FROM flights WHERE ... GROUP BY ORIGIN_AIRPORT, DESTINATION_AIRPORT">>

\* the f-string of show_delay_lines_on_route_map: the two inputs are written
\* into the statement's text
QUERY_PERCENTAGE_ON_ROUTE_MAP(origin, destination) ==
    <<"SELECT ... FROM flights f JOIN airports a1 ... JOIN airports a2 ... WHERE f.ORIGIN_AIRPORT = '">>
    \o origin \o <<"' AND f.DESTINATION_AIRPORT = '">>
    \o destination \o <<"' GROUP BY f.ORIGIN_AIRPORT, f.DESTINATION_AIRPORT;">>

NoArgs == [id |-> 0, day |-> PyInt(0), month |-> PyInt(0), year |-> PyInt(0),
           pattern |-> <<>>, origin |-> <<>>, destination |-> <<>>]

\* a statement as _execute_query gets it: the text, the keys of params, and
\* the values bound (or, for the route map, written into the text)
Query(op, text, keys, args) == [op |-> op, text |-> text, keys |-> keys, args |-> args]

NoCall == Query("none", <<>>, {}, NoArgs)

RECURSIVE Concat(_)
Concat(seqs) == IF seqs = <<>> THEN <<>> ELSE Head(seqs) \o Concat(Tail(seqs))

RECURSIVE Distinct(_)
\* the values of a sequence, each once, in the order they first occur
Distinct(seq) ==
    IF seq = <<>> THEN <<>>
    ELSE LET front == Distinct(SubSeq(seq, 1, Len(seq) - 1))
             last == seq[Len(seq)]
         IN  IF \E i \in DOMAIN front : front[i] = last THEN front ELSE Append(front, last)

Count(seq, Test(_)) == Len(SelectSeq(seq, Test))

\* flights JOIN airlines ON flights.airline = airlines.id
FlightsJoinAirlines(store) ==
    Concat([i \in DOMAIN store.flights |->
        LET f == store.flights[i]
            as == SelectSeq(store.airlines, LAMBDA a : a.ID = f.AIRLINE)
        IN  [j \in DOMAIN as |-> [f |-> f, a |-> as[j]]]])

\* flights JOIN airports ON flights.ORIGIN_AIRPORT = airports.IATA_CODE
FlightsJoinAirports(store) ==
    Concat([i \in DOMAIN store.flights |->
        LET f == store.flights[i]
            ps == SelectSeq(store.airports,
                            LAMBDA p : f.ORIGIN_AIRPORT = StrCell(p.IATA_CODE))
        IN  [j \in DOMAIN ps |-> [f |-> f, p |-> ps[j]]]])

\* SELECT flights.*, airlines.airline, flights.ID as FLIGHT_ID,
\*        flights.DEPARTURE_DELAY as DELAY
AirlineRow(fa) ==
    [FLIGHT_ID |-> fa.f.ID, DELAY |-> fa.f.DEPARTURE_DELAY, AIRLINE |-> fa.a.AIRLINE] @@ fa.f

\* SELECT flights.*, airports.airport, flights.ID as FLIGHT_ID,
\*        flights.DEPARTURE_DELAY as DELAY
AirportRow(fp) ==
    [FLIGHT_ID |-> fp.f.ID, DELAY |-> fp.f.DEPARTURE_DELAY, AIRPORT |-> fp.p.AIRPORT] @@ fp.f

\* (flights.AIRLINE_DELAY IS NOT NULL OR flights.WEATHER_DELAY IS NOT NULL OR
\*  flights.LATE_AIRCRAFT_DELAY IS NOT NULL OR flights.SECURITY_DELAY IS NOT NULL OR
\*  flights.AIR_SYSTEM_DELAY IS NOT NULL OR flights.ARRIVAL_DELAY IS NOT NULL)
AnyCauseNotNull(f) ==
    \/ IsNotNull(f.AIRLINE_DELAY)
    \/ IsNotNull(f.WEATHER_DELAY)
    \/ IsNotNull(f.LATE_AIRCRAFT_DELAY)
    \/ IsNotNull(f.SECURITY_DELAY)
    \/ IsNotNull(f.AIR_SYSTEM_DELAY)
    \/ IsNotNull(f.ARRIVAL_DELAY)

\* WHERE flights.ID = :id
WhereFlightById(fa, args) == fa.f.ID = args.id

\* WHERE flights.day = :day AND flights.month = :month AND flights.year = :year
WhereFlightByDate(fa, args) ==
    /\ fa.f.DAY = CIntValue(args.day)
    /\ fa.f.MONTH = CIntValue(args.month)
    /\ fa.f.YEAR = CIntValue(args.year)

\* WHERE DELAY IS NOT NULL AND (...) AND LOWER(airlines.AIRLINE) LIKE LOWER(:airline)
WhereDelayedByAirline(fa, args) ==
    /\ IsNotNull(fa.f.DEPARTURE_DELAY)
    /\ AnyCauseNotNull(fa.f)
    /\ LowerLikeLower(fa.a.AIRLINE, args.pattern)

\* the airport filter without the departure delay among its alternatives
WhereAnyCauseByAirport(fp, args) ==
    /\ AnyCauseNotNull(fp.f)
    /\ LowerLikeLower(fp.p.IATA_CODE, args.pattern)

\* WHERE (DELAY IS NOT NULL OR ...) AND LOWER(airports.IATA_CODE) LIKE LOWER(:airport)
WhereDelayedByAirport(fp, args) ==
    /\ IsNotNull(fp.f.DEPARTURE_DELAY) \/ AnyCauseNotNull(fp.f)
    /\ LowerLikeLower(fp.p.IATA_CODE, args.pattern)

Project(pairs, Row(_)) == [i \in DOMAIN pairs |-> Row(pairs[i])]

\* QUERY_PERCENTAGE_DELAYED_BY_AIRLINE: one row for each airline name that has
\* flights (the order of the groups is the order the names first occur in)
PercentageByAirlineRows(store) ==
    LET pairs == FlightsJoinAirlines(store)
        names == Distinct([i \in DOMAIN pairs |-> pairs[i].a.AIRLINE])
    IN  [k \in DOMAIN names |->
            [AIRLINE |-> names[k],
             delayed_flights |-> Count(pairs, LAMBDA fa : fa.a.AIRLINE = names[k]
                                              /\ GreaterThanZero(fa.f.DEPARTURE_DELAY)),
             total_flights |-> Count(pairs, LAMBDA fa : fa.a.AIRLINE = names[k])]]

\* QUERY_PERCENTAGE_DELAYED_BY_HOUR
ByHourRows(store) ==
    LET fs == SelectSeq(store.flights, LAMBDA f : IsNotNull(f.DEPARTURE_TIME)
                                                 /\ IsNotNull(f.DEPARTURE_DELAY))
    IN  [i \in DOMAIN fs |-> [DEPARTURE_TIME |-> fs[i].DEPARTURE_TIME,
                              DEPARTURE_DELAY |-> fs[i].DEPARTURE_DELAY]]

\* QUERY_HEATMAP_DELAY
HeatmapRows(store) ==
    LET fs == SelectSeq(store.flights, LAMBDA f : IsNotNull(f.ORIGIN_AIRPORT)
                                                 /\ IsNotNull(f.DESTINATION_AIRPORT))
        routes == Distinct([i \in DOMAIN fs |->
                      <<fs[i].ORIGIN_AIRPORT.s, fs[i].DESTINATION_AIRPORT.s>>])
        OnRoute(f, r) == f.ORIGIN_AIRPORT.s = r[1] /\ f.DESTINATION_AIRPORT.s = r[2]
    IN  [k \in DOMAIN routes |->
            [ORIGIN_AIRPORT |-> routes[k][1], DESTINATION_AIRPORT |-> routes[k][2],
             total_flights |-> Count(fs, LAMBDA f : OnRoute(f, routes[k])),
             delayed_flights |-> Count(fs, LAMBDA f : OnRoute(f, routes[k])
                                              /\ GreaterThanZero(f.DEPARTURE_DELAY))]]

\* QUERY_PERCENTAGE_ON_ROUTE_MAP with origin and destination written into it:
\* the flights of the route whose two airports are in airports, as one group
RouteMapRows(store, args) ==
    LET a1 == SelectSeq(store.airports, LAMBDA p : p.IATA_CODE = args.origin)
        a2 == SelectSeq(store.airports, LAMBDA p : p.IATA_CODE = args.destination)
        fs == SelectSeq(store.flights,
                        LAMBDA f : /\ f.ORIGIN_AIRPORT = StrCell(args.origin)
                                   /\ f.DESTINATION_AIRPORT = StrCell(args.destination))
    IN  IF fs = <<>> \/ a1 = <<>> \/ a2 = <<>> THEN <<>>
        ELSE << [ORIGIN_AIRPORT |-> args.origin, DESTINATION_AIRPORT |-> args.destination,
                 total_flights |-> Len(fs) * Len(a1) * Len(a2),
                 delayed_flights |-> Count(fs, LAMBDA f : GreaterThanZero(f.DEPARTURE_DELAY))
                                         * Len(a1) * Len(a2),
                 origin_lat |-> a1[1].LATITUDE, origin_lon |-> a1[1].LONGITUDE,
                 dest_lat |-> a2[1].LATITUDE, dest_lon |-> a2[1].LONGITUDE] >>

\* what the store answers to a statement
Rows(store, q) ==
    CASE q.op = "get_flight_by_id" ->
           Project(SelectSeq(FlightsJoinAirlines(store),
                             LAMBDA fa : WhereFlightById(fa, q.args)), AirlineRow)
      [] q.op = "get_flights_by_date" ->
           Project(SelectSeq(FlightsJoinAirlines(store),
                             LAMBDA fa : WhereFlightByDate(fa, q.args)), AirlineRow)
      [] q.op = "get_delayed_flights_by_airline" ->
           Project(SelectSeq(FlightsJoinAirlines(store),
                             LAMBDA fa : WhereDelayedByAirline(fa, q.args)), AirlineRow)
      [] q.op = "get_delayed_flights_by_airport" ->
           Project(SelectSeq(FlightsJoinAirports(store),
                             LAMBDA fp : WhereDelayedByAirport(fp, q.args)), AirportRow)
      [] q.op = "show_delay_percent_by_airline" -> PercentageByAirlineRows(store)
      [] q.op = "show_delay_percent_by_hour" -> ByHourRows(store)
      [] q.op = "show_delay_heatmap" -> HeatmapRows(store)
      [] q.op = "show_delay_lines_on_route_map" -> RouteMapRows(store, q.args)

-----------------------------------------------------------------------------
(* Exceptions *)

\* the classes an exception is an instance of
Mro(exc) ==
    CASE exc = "OperationalError" -> {"OperationalError", "DBAPIError", "SQLAlchemyError", "Exception"}
      [] exc = "ProgrammingError" -> {"ProgrammingError", "DBAPIError", "SQLAlchemyError", "Exception"}
      [] exc = "ResourceClosedError" -> {"ResourceClosedError", "InvalidRequestError", "SQLAlchemyError", "Exception"}
      [] exc = "MemoryError" -> {"MemoryError", "Exception"}
      [] exc = "ValueError" -> {"ValueError", "Exception"}
      [] exc = "OverflowError" -> {"OverflowError", "ArithmeticError", "Exception"}

\* what connecting, executing and fetching can raise
StoreErrors == {"OperationalError", "ProgrammingError", "ResourceClosedError", "MemoryError"}

\* a handler that catches only the errors of SQLAlchemy
CatchesSQLAlchemyError(exc) == "SQLAlchemyError" \in Mro(exc)

\* _execute_query: except Exception
ExecuteQueryCatches(exc) == "Exception" \in Mro(exc)

\* get_flights_by_date: except ValueError
FlightsByDateCatches(exc) == "ValueError" \in Mro(exc)

-----------------------------------------------------------------------------
(* The data access layer, FlightData *)

\* a connection's __exit__ that leaves the connection open
ExitWithLeaks(opened, c) == opened

\* leaving "with self._engine.connect() as connection": the connection is closed
ExitWith(opened, c) == opened \ {c}

\* entering _execute_query(query, params)
EnterExecuteQuery(q) ==
    /\ pc = "idle"
    /\ ncalls < MaxCalls
    /\ pc' = "connect"
    /\ call' = q
    /\ ncalls' = ncalls + 1
    /\ UNCHANGED <<conn, open, closed, nextConn, cursor, result, raised, reported,
                   failedAt, sent, acquired>>

\* an exception raised at a stage inside the try of _execute_query, the
\* with-block already left
ExecuteQueryExcept(exc, stage) ==
    /\ pc' = "done"
    /\ failedAt' = stage
    /\ result' = <<>>
    /\ IF ExecuteQueryCatches(exc)
       THEN reported' = "Error executing query" /\ raised' = "none"
       ELSE reported' = "none" /\ raised' = exc

FlightIdInputs == {1, 16, 31}

get_flight_by_id(flight_id) ==
    /\ EnterExecuteQuery(Query("get_flight_by_id", QUERY_FLIGHT_BY_ID, {"id"},
                               [NoArgs EXCEPT !.id = flight_id]))
    /\ UNCHANGED <<db, mainVars>>

DayInputs == {PyInt(0), PyInt(1), PyInt(29), PyInt(30), PyInt(31), PyInt(32)}
MonthInputs == {PyInt(0), PyInt(1), PyInt(2), PyInt(4), PyInt(12), PyInt(13)}
YearInputs == {PyInt(-1), PyInt(0), PyInt(1900), PyInt(2000), PyInt(2023), PyInt(2024),
               PyInt(10000), [hi |-> 1, lo |-> 0], [hi |-> -2, lo |-> INT_MAX]}

DateArgs(day, month, year) == [NoArgs EXCEPT !.day = day, !.month = month, !.year = year]

get_flights_by_date(day, month, year) ==
    /\ LET made == DatetimeNew(year, month, day)
       IN  IF made = "ok"
           THEN EnterExecuteQuery(Query("get_flights_by_date", QUERY_FLIGHT_BY_DATE,
                                        {"day", "month", "year"},
                                        DateArgs(day, month, year)))
           ELSE /\ pc = "idle"
                /\ ncalls < MaxCalls
                /\ pc' = "done"
                /\ call' = Query("get_flights_by_date", <<>>, {}, DateArgs(day, month, year))
                /\ ncalls' = ncalls + 1
                /\ failedAt' = "validate"
                /\ result' = <<>>
                /\ IF FlightsByDateCatches(made)
                   THEN reported' = "Invalid date format. Use DD/MM/YYYY." /\ raised' = "none"
                   ELSE reported' = "none" /\ raised' = made
                /\ UNCHANGED <<conn, open, closed, nextConn, cursor, sent, acquired>>
    /\ UNCHANGED <<db, mainVars>>

FragmentChars == {"d", "E", "%", "_"}
FragmentInputs == SeqsUpTo(FragmentChars, MaxFragLen)

get_delayed_flights_by_airline(airline) ==
    /\ EnterExecuteQuery(Query("get_delayed_flights_by_airline",
                               QUERY_DELAYED_FLIGHT_BY_AIRLINE, {"airline"},
                               [NoArgs EXCEPT !.pattern = airline]))
    /\ UNCHANGED <<db, mainVars>>

get_delayed_flights_by_airport(airport) ==
    /\ EnterExecuteQuery(Query("get_delayed_flights_by_airport",
                               QUERY_DELAYED_FLIGHT_BY_AIRPORT, {"airport"},
                               [NoArgs EXCEPT !.pattern = airport]))
    /\ UNCHANGED <<db, mainVars>>

CodeInputs == {DED, EDE, DDE}

\* the statement a handler of main.py hands to _execute_query, with params = {}
HandlerQuery(h, origin, destination) ==
    CASE h = "show_delay_percent_by_airline" ->
           Query(h, QUERY_PERCENTAGE_DELAYED_BY_AIRLINE, {}, NoArgs)
      [] h = "show_delay_percent_by_hour" ->
           Query(h, QUERY_PERCENTAGE_DELAYED_BY_HOUR, {}, NoArgs)
      [] h = "show_delay_heatmap" ->
           Query(h, QUERY_HEATMAP_DELAY, {}, NoArgs)
      [] h = "show_delay_lines_on_route_map" ->
           Query(h, QUERY_PERCENTAGE_ON_ROUTE_MAP(origin, destination), {},
                 [NoArgs EXCEPT !.origin = origin, !.destination = destination])

AggregationHandlers == {"show_delay_percent_by_airline", "show_delay_percent_by_hour",
                        "show_delay_heatmap", "show_delay_lines_on_route_map"}

\* a direct call of _execute_query, as the handlers of main.py make it
execute_query(h, origin, destination) ==
    /\ h = "show_delay_lines_on_route_map" \/ (origin = DED /\ destination = DED)
    /\ EnterExecuteQuery(HandlerQuery(h, origin, destination))
    /\ UNCHANGED <<db, mainVars>>

\* self._engine.connect()
Connect ==
    /\ pc = "connect"
    /\ pc' = "execute"
    /\ conn' = nextConn
    /\ nextConn' = nextConn + 1
    /\ open' = open \cup {nextConn}
    /\ acquired' = acquired \cup {nextConn}
    /\ UNCHANGED <<db, call, closed, cursor, result, raised, reported, failedAt, sent,
                   ncalls, mainVars>>

ConnectFails(exc) ==
    /\ pc = "connect"
    /\ ExecuteQueryExcept(exc, "connect")
    /\ UNCHANGED <<db, call, conn, open, closed, nextConn, cursor, sent, acquired,
                   ncalls, mainVars>>

\* connection.execute(query_exe, params)
Execute ==
    /\ pc = "execute"
    /\ pc' = "fetch"
    /\ sent' = Append(sent, call)
    /\ cursor' = Rows(db, call)
    /\ UNCHANGED <<db, call, conn, open, closed, nextConn, result, raised, reported,
                   failedAt, acquired, ncalls, mainVars>>

ExecuteFails(exc) ==
    /\ pc = "execute"
    /\ sent' = Append(sent, call)
    /\ open' = ExitWith(open, conn)
    /\ closed' = closed \cup {conn}
    /\ conn' = 0
    /\ ExecuteQueryExcept(exc, "execute")
    /\ UNCHANGED <<db, call, nextConn, cursor, acquired, ncalls, mainVars>>

\* result.fetchall(), the copy into row_content, and the return out of the with-block
Fetch ==
    /\ pc = "fetch"
    /\ pc' = "done"
    /\ result' = cursor
    /\ open' = ExitWith(open, conn)
    /\ closed' = closed \cup {conn}
    /\ conn' = 0
    /\ UNCHANGED <<db, call, nextConn, cursor, raised, reported, failedAt, sent,
                   acquired, ncalls, mainVars>>

FetchFails(exc) ==
    /\ pc = "fetch"
    /\ open' = ExitWith(open, conn)
    /\ closed' = closed \cup {conn}
    /\ conn' = 0
    /\ ExecuteQueryExcept(exc, "fetch")
    /\ UNCHANGED <<db, call, nextConn, cursor, sent, acquired, ncalls, mainVars>>

\* the caller has the call's outcome; the next call starts afresh
Return ==
    /\ pc = "done"
    /\ pc' = "idle"
    /\ call' = NoCall
    /\ cursor' = <<>>
    /\ result' = <<>>
    /\ raised' = "none"
    /\ reported' = "none"
    /\ failedAt' = "none"
    /\ sent' = <<>>
    /\ acquired' = {}
    /\ UNCHANGED <<db, conn, open, closed, nextConn, ncalls, mainVars>>

\* __del__: self._engine.dispose()
Del ==
    /\ pc = "idle"
    /\ pc' = "destroyed"
    /\ closed' = closed \cup open
    /\ open' = {}
    /\ UNCHANGED <<db, call, conn, nextConn, cursor, result, raised, reported, failedAt,
                   sent, acquired, ncalls, mainVars>>

DalInit ==
    /\ pc = "idle"
    /\ call = NoCall
    /\ conn = 0
    /\ open = {}
    /\ closed = {}
    /\ nextConn = 1
    /\ cursor = <<>>
    /\ result = <<>>
    /\ raised = "none"
    /\ reported = "none"
    /\ failedAt = "none"
    /\ sent = <<>>
    /\ acquired = {}
    /\ ncalls = 0

MainInit ==
    /\ handler = "none"
    /\ results = <<>>
    /\ filter = FALSE
    /\ idx = 0
    /\ out = <<>>
    /\ chart = <<>>

Init ==
    /\ db = DalStore
    /\ DalInit
    /\ MainInit

Next ==
    \/ \E flight_id \in FlightIdInputs : get_flight_by_id(flight_id)
    \/ \E day \in DayInputs, month \in MonthInputs, year \in YearInputs :
           get_flights_by_date(day, month, year)
    \/ \E airline \in FragmentInputs : get_delayed_flights_by_airline(airline)
    \/ \E airport \in FragmentInputs : get_delayed_flights_by_airport(airport)
    \/ \E h \in AggregationHandlers, origin \in CodeInputs, destination \in CodeInputs :
           execute_query(h, origin, destination)
    \/ Connect
    \/ \E exc \in StoreErrors : ConnectFails(exc)
    \/ Execute
    \/ \E exc \in StoreErrors : ExecuteFails(exc)
    \/ Fetch
    \/ \E exc \in StoreErrors : FetchFails(exc)
    \/ Return
    \/ Del

Spec == Init /\ [][Next]_vars

-----------------------------------------------------------------------------
(* Claims about the data access layer *)

StorageStages == {"connect", "execute", "fetch"}

\* C1: a DAL call in which connecting, executing or fetching failed returns an
\* empty list after reporting the error, and no exception leaves the call.
C1_StoreFailureGivesEmptyList ==
    (pc = "done" /\ failedAt \in StorageStages)
        => (result = <<>> /\ reported = "Error executing query" /\ raised = "none")

\* C1: the second call of a run found rows and failed fetching them
C1_Witness ==
    /\ pc = "done"
    /\ ncalls = 2
    /\ failedAt = "fetch"
    /\ call.op = "get_delayed_flights_by_airport"
    /\ cursor # <<>>
    /\ result = <<>>

\* (day, month, year) is a date of the calendar
IsCalendarDate(day, month, year) ==
    /\ day.hi = 0 /\ month.hi = 0 /\ year.hi = 0
    /\ year.lo \in MINYEAR..MAXYEAR
    /\ month.lo \in 1..12
    /\ day.lo >= 1
    /\ day.lo <= (IF month.lo = 2
                  THEN (IF year.lo % 4 = 0 /\ (year.lo % 100 # 0 \/ year.lo % 400 = 0)
                        THEN 29 ELSE 28)
                  ELSE IF month.lo \in {4, 6, 9, 11} THEN 30 ELSE 31)

\* C2: get_flights_by_date on a triple that is no calendar date returns an
\* empty result, reports a validation failure and does not touch the store.
C2_InvalidDateGivesEmptyResult ==
    (/\ pc = "done"
     /\ call.op = "get_flights_by_date"
     /\ ~IsCalendarDate(call.args.day, call.args.month, call.args.year))
        => (/\ result = <<>>
            /\ reported = "Invalid date format. Use DD/MM/YYYY."
            /\ raised = "none"
            /\ acquired = {}
            /\ sent = <<>>)

FlightIds(rows) == {rows[i].FLIGHT_ID : i \in DOMAIN rows}

\* the flights of the store that satisfy Test
FlightIdsWhere(Test(_)) ==
    {db.flights[i].ID : i \in {j \in DOMAIN db.flights : Test(db.flights[j])}}

\* s contains part as a run of consecutive characters, whatever the case
ContainsIgnoringCase(s, part) ==
    \E i \in 0..(Len(s) - Len(part)) :
        Lower(SubSeq(s, i + 1, i + Len(part))) = Lower(part)

Letters(s) == \A i \in DOMAIN s : s[i] \notin {"%", "_"}

CauseColumns == {"AIRLINE_DELAY", "WEATHER_DELAY", "SECURITY_DELAY", "AIR_SYSTEM_DELAY",
                 "LATE_AIRCRAFT_DELAY", "ARRIVAL_DELAY"}

AirlineNamesOf(f) ==
    {db.airlines[i].AIRLINE : i \in {j \in DOMAIN db.airlines : db.airlines[j].ID = f.AIRLINE}}

OriginCodesOf(f) ==
    {db.airports[i].IATA_CODE :
        i \in {j \in DOMAIN db.airports : StrCell(db.airports[j].IATA_CODE) = f.ORIGIN_AIRPORT}}

\* C6: get_delayed_flights_by_airline(fragment), fragment one or more letters,
\* returns exactly the flights whose airline name contains the fragment
\* whatever the case, whose departure delay is not null and one of whose six
\* cause columns is not null.
C6_AirlineFragmentIsSubstringMatch ==
    (/\ pc = "done"
     /\ call.op = "get_delayed_flights_by_airline"
     /\ failedAt = "none"
     /\ call.args.pattern # <<>>
     /\ Letters(call.args.pattern))
        => FlightIds(result) =
               FlightIdsWhere(LAMBDA f :
                   /\ \E name \in AirlineNamesOf(f) : ContainsIgnoringCase(name, call.args.pattern)
                   /\ f["DEPARTURE_DELAY"].t # "NULL"
                   /\ \E c \in CauseColumns : f[c].t # "NULL")

\* C7 as stated: get_delayed_flights_by_airport returns a flight whose origin
\* code matches iff one of its six cause columns is not null, whatever its
\* departure delay.
C7_AirportFilterIsSixCauses ==
    (/\ pc = "done"
     /\ call.op = "get_delayed_flights_by_airport"
     /\ failedAt = "none")
        => FlightIds(result) =
               FlightIdsWhere(LAMBDA f :
                   /\ \E code \in OriginCodesOf(f) : LowerLikeLower(code, call.args.pattern)
                   /\ \E c \in CauseColumns : f[c].t # "NULL")

\* C7, amended: get_delayed_flights_by_airport returns a flight whose origin
\* code matches iff its departure delay or one of its six cause columns is
\* not null.
C7_AirportFilterIsDelayOrCause ==
    (/\ pc = "done"
     /\ call.op = "get_delayed_flights_by_airport"
     /\ failedAt = "none")
        => FlightIds(result) =
               FlightIdsWhere(LAMBDA f :
                   /\ \E code \in OriginCodesOf(f) : LowerLikeLower(code, call.args.pattern)
                   /\ \E c \in CauseColumns \cup {"DEPARTURE_DELAY"} : f[c].t # "NULL")

\* C7: the rows returned hold a flight with a departure delay and no cause, a
\* flight with a cause and no departure delay, and not every flight of the origin
C7_Witness ==
    /\ pc = "done"
    /\ call.op = "get_delayed_flights_by_airport"
    /\ failedAt = "none"
    /\ \E i \in DOMAIN result :
           result[i].DELAY.t # "NULL" /\ \A c \in CauseColumns : result[i][c].t = "NULL"
    /\ \E i \in DOMAIN result :
           result[i].DELAY.t = "NULL" /\ \E c \in CauseColumns : result[i][c].t # "NULL"
    /\ \E i \in DOMAIN db.flights :
           /\ db.flights[i].ID \notin FlightIds(result)
           /\ \E code \in OriginCodesOf(db.flights[i]) : LowerLikeLower(code, call.args.pattern)

-----------------------------------------------------------------------------
(* The aggregating handlers of main.py *)

\* _execute_query as one step: the rows, or [] when the store failed
ExecuteQuery(store, q, ok) == IF ok THEN Rows(store, q) ELSE <<>>

\* (delayed / total) * factor, kept exact as a fraction
Percent(delayed, total, factor) == [num |-> delayed * factor, den |-> total]

\* percent < n
PercentLess(percent, n) == percent.num < n * percent.den

Digits == <<"0", "1", "2", "3", "4", "5", "6", "7", "8", "9">>

DigitValue(ch) == (CHOOSE i \in DOMAIN Digits : Digits[i] = ch) - 1

RECURSIVE ZFill(_, _)
\* str.zfill(width) of a string of digits
ZFill(s, width) == IF Len(s) >= width THEN s ELSE ZFill(<<"0">> \o s, width)

RECURSIVE ParseInt(_)
\* int(s) of a string of digits
ParseInt(s) ==
    IF s = <<>> THEN 0
    ELSE ParseInt(SubSeq(s, 1, Len(s) - 1)) * 10 + DigitValue(s[Len(s)])

\* df['DEPARTURE_TIME'].astype(str).str.zfill(4), then .str[:2].astype(int)
Hour(time) == ParseInt(SubSeq(ZFill(time, 4), 1, 2))

\* an hour filter that lets the 24 of "2400" through
HourAtMost24(hour) == hour <= 24

\* df = df[df['HOUR'] < 24]
HourKept(hour) == hour < 24

\* df['DELAYED'] = df['DEPARTURE_DELAY'] > 0
Delayed(delay) == delay.t = "INT" /\ delay.v > 0

RECURSIVE Sorted(_)
\* the numbers of a set in ascending order
Sorted(S) ==
    IF S = {} THEN <<>>
    ELSE LET least == CHOOSE x \in S : \A y \in S : x <= y
         IN  <<least>> \o Sorted(S \ {least})

\* the grouped frame of show_delay_percent_by_hour
ByHourChart(rows) ==
    LET kept == SelectSeq(rows, LAMBDA r : HourKept(Hour(r.DEPARTURE_TIME.s)))
        hours == Sorted({Hour(kept[i].DEPARTURE_TIME.s) : i \in DOMAIN kept})
    IN  [k \in DOMAIN hours |->
            LET sum == Count(kept, LAMBDA r : Hour(r.DEPARTURE_TIME.s) = hours[k]
                                              /\ Delayed(r.DEPARTURE_DELAY))
                count == Count(kept, LAMBDA r : Hour(r.DEPARTURE_TIME.s) = hours[k])
            IN  [HOUR |-> hours[k], sum |-> sum, count |-> count,
                 PERCENT_DELAYED |-> Percent(sum, count, 100)]]

\* the frame of show_delay_percent_by_airline
ByAirlineChart(rows) ==
    [i \in DOMAIN rows |->
        [AIRLINE |-> rows[i].AIRLINE, delayed_flights |-> rows[i].delayed_flights,
         total_flights |-> rows[i].total_flights,
         delay_percentage |-> Percent(rows[i].delayed_flights, rows[i].total_flights, 100)]]

\* the frame show_delay_heatmap pivots
HeatmapChart(rows) ==
    [i \in DOMAIN rows |->
        [ORIGIN_AIRPORT |-> rows[i].ORIGIN_AIRPORT,
         DESTINATION_AIRPORT |-> rows[i].DESTINATION_AIRPORT,
         delayed_flights |-> rows[i].delayed_flights,
         total_flights |-> rows[i].total_flights,
         DELAY_PERCENT |-> Percent(rows[i].delayed_flights, rows[i].total_flights, 100)]]

\* the colour of a route's line
Colour(delay) ==
    IF PercentLess(delay, 10) THEN "green"
    ELSE IF PercentLess(delay, 30) THEN "orange"
    ELSE "red"

\* the lines show_delay_lines_on_route_map draws: df['delay_percent'] is
\* (delayed_flights / total_flights) * 10, rows without coordinates are skipped
RouteMapChart(rows) ==
    LET located == SelectSeq(rows, LAMBDA r : /\ IsNotNull(r.origin_lat)
                                              /\ IsNotNull(r.origin_lon)
                                              /\ IsNotNull(r.dest_lat)
                                              /\ IsNotNull(r.dest_lon))
    IN  [i \in DOMAIN located |->
            LET delay == Percent(located[i].delayed_flights, located[i].total_flights, 10)
            IN  [ORIGIN_AIRPORT |-> located[i].ORIGIN_AIRPORT,
                 DESTINATION_AIRPORT |-> located[i].DESTINATION_AIRPORT,
                 delayed_flights |-> located[i].delayed_flights,
                 total_flights |-> located[i].total_flights,
                 delay_percent |-> delay,
                 color |-> Colour(delay)]]

\* a handler that hands a statement to _execute_query and charts the rows
RunHandler(h, q, ok, Chart(_), nothing, shown) ==
    /\ handler = "none"
    /\ handler' = h
    /\ sent' = <<q>>
    /\ failedAt' = IF ok THEN "none" ELSE "execute"
    /\ results' = ExecuteQuery(db, q, ok)
    /\ chart' = Chart(results')
    /\ out' = IF results' = <<>> THEN <<nothing>> ELSE shown

\* what no handler of main.py writes: the store and the state of a DAL call in steps
aggUnchanged == <<db, pc, call, conn, open, closed, nextConn, cursor, result, raised,
                  reported, acquired, ncalls, filter, idx>>

show_delay_lines_on_route_map(origin, destination, ok) ==
    /\ RunHandler("show_delay_lines_on_route_map",
                  HandlerQuery("show_delay_lines_on_route_map", origin, destination), ok,
                  RouteMapChart, "No route data found.",
                  <<"Flight paths map saved to flight_paths_delayed_map.html.">>)
    /\ UNCHANGED aggUnchanged

show_delay_heatmap(ok) ==
    /\ RunHandler("show_delay_heatmap", HandlerQuery("show_delay_heatmap", <<>>, <<>>), ok,
                  HeatmapChart, "No data found.", <<>>)
    /\ UNCHANGED aggUnchanged

show_delay_percent_by_hour(ok) ==
    /\ RunHandler("show_delay_percent_by_hour",
                  HandlerQuery("show_delay_percent_by_hour", <<>>, <<>>), ok,
                  ByHourChart, "No results found.", <<>>)
    /\ UNCHANGED aggUnchanged

show_delay_percent_by_airline(ok) ==
    /\ RunHandler("show_delay_percent_by_airline",
                  HandlerQuery("show_delay_percent_by_airline", <<>>, <<>>), ok,
                  ByAirlineChart, "No results found.", <<>>)
    /\ UNCHANGED aggUnchanged

PrintingHandlers == {"flight_by_id", "flights_by_date", "delayed_flights_by_airline",
                     "delayed_flights_by_airport"}

\* the handler returns to the menu loop of main
Menu ==
    /\ handler # "none"
    /\ handler \in PrintingHandlers => idx > Len(results)
    /\ handler' = "none"
    /\ results' = <<>>
    /\ filter' = FALSE
    /\ idx' = 0
    /\ out' = <<>>
    /\ chart' = <<>>
    /\ sent' = <<>>
    /\ failedAt' = "none"
    /\ UNCHANGED <<db, pc, call, conn, open, closed, nextConn, cursor, result, raised,
                   reported, acquired, ncalls>>

\* the stores the handlers aggregate: up to MaxFlights flights, of two
\* airlines, each with its own route and departure time
AggDelays == {Null, IntCell(-5), IntCell(15)}
AggShapes == {[airline |-> a, delay |-> d] : a \in {1, 2}, d \in AggDelays}

AggFlight(id, shape) ==
    Flight(id, 1, 1, 2000, shape.airline,
           StrCell(IF shape.airline = 1 THEN DED ELSE EDE),
           StrCell(IF shape.airline = 1 THEN EDE ELSE DED),
           StrCell(IF shape.airline = 1 THEN <<"0", "9", "3", "0">> ELSE <<"2", "3", "5", "9">>),
           shape.delay, {"DEPARTURE_DELAY"})

\* a route flown total times, delayed of them late
RouteFlights(total, delayed) ==
    [i \in 1..total |-> AggFlight(i, [airline |-> 1,
                                      delay |-> IF i <= delayed THEN IntCell(15) ELSE IntCell(0)])]

AggStores ==
    {[flights |-> fs, airlines |-> StoreAirlines, airports |-> StoreAirports] :
        fs \in {[i \in DOMAIN shapes |-> AggFlight(i, shapes[i])] :
                   shapes \in SeqsUpTo(AggShapes, MaxFlights)}
               \cup {RouteFlights(20, 2), RouteFlights(10, 3)}}

InitAgg ==
    /\ db \in AggStores
    /\ DalInit
    /\ MainInit

NextAgg ==
    \/ \E origin \in CodeInputs, destination \in CodeInputs, ok \in BOOLEAN :
           show_delay_lines_on_route_map(origin, destination, ok)
    \/ \E ok \in BOOLEAN : show_delay_heatmap(ok)
    \/ \E ok \in BOOLEAN : show_delay_percent_by_hour(ok)
    \/ \E ok \in BOOLEAN : show_delay_percent_by_airline(ok)
    \/ Menu

SpecAgg == InitAgg /\ [][NextAgg]_vars

-----------------------------------------------------------------------------
(* Claims about the aggregations *)

\* the number of flights of the store that satisfy Test
FlightCount(Test(_)) == Cardinality({i \in DOMAIN db.flights : Test(db.flights[i])})

Late(f) == f.DEPARTURE_DELAY.t = "INT" /\ f.DEPARTURE_DELAY.v > 0

\* the chart's row for every group with flights counts every flight of the
\* group in the total, and the flights later than 0 minutes as delayed
GroupsCounted(Keys, KeyOf(_), RowKey(_), DelayedOf(_), TotalOf(_)) ==
    \A k \in Keys :
        LET total == FlightCount(LAMBDA f : KeyOf(f) = k)
            delayed == FlightCount(LAMBDA f : KeyOf(f) = k /\ Late(f))
        IN  total > 0 =>
                \E i \in DOMAIN chart :
                    /\ RowKey(chart[i]) = k
                    /\ TotalOf(chart[i]) = total
                    /\ DelayedOf(chart[i]) = delayed

AirlineNameOf(f) == CHOOSE name \in AirlineNamesOf(f) : TRUE

\* C4: in every aggregation a flight whose departure delay is null is counted
\* in the total of its group and not among the delayed: every chart row holds
\* the number of all flights of its group and the number of those later than
\* 0 minutes.
C4_NullDelayCountedInTotal ==
    /\ (handler = "show_delay_percent_by_airline" /\ failedAt = "none") =>
           GroupsCounted({db.airlines[i].AIRLINE : i \in DOMAIN db.airlines},
                         AirlineNameOf, LAMBDA r : r.AIRLINE,
                         LAMBDA r : r.delayed_flights, LAMBDA r : r.total_flights)
    /\ (handler = "show_delay_percent_by_hour" /\ failedAt = "none") =>
           GroupsCounted(0..23,
                         LAMBDA f : Hour(f.DEPARTURE_TIME.s), LAMBDA r : r.HOUR,
                         LAMBDA r : r.sum, LAMBDA r : r.count)
    /\ (handler = "show_delay_heatmap" /\ failedAt = "none") =>
           GroupsCounted(CodeInputs \X CodeInputs,
                         LAMBDA f : <<f.ORIGIN_AIRPORT.s, f.DESTINATION_AIRPORT.s>>,
                         LAMBDA r : <<r.ORIGIN_AIRPORT, r.DESTINATION_AIRPORT>>,
                         LAMBDA r : r.delayed_flights, LAMBDA r : r.total_flights)
    /\ (handler = "show_delay_lines_on_route_map" /\ failedAt = "none") =>
           GroupsCounted({<<sent[1].args.origin, sent[1].args.destination>>},
                         LAMBDA f : <<f.ORIGIN_AIRPORT.s, f.DESTINATION_AIRPORT.s>>,
                         LAMBDA r : <<r.ORIGIN_AIRPORT, r.DESTINATION_AIRPORT>>,
                         LAMBDA r : r.delayed_flights, LAMBDA r : r.total_flights)

\* the severity of 100 * delayed / total
Severity(delayed, total) ==
    IF 100 * delayed < 10 * total THEN "green"
    ELSE IF 100 * delayed < 30 * total THEN "orange"
    ELSE "red"

\* C5: the route map's percentage is 100 * delayed / total, and its colour is
\* green below 10, orange from 10 and below 30, red otherwise.
C5_RoutePercentageAndSeverity ==
    (handler = "show_delay_lines_on_route_map" /\ failedAt = "none") =>
        \A i \in DOMAIN chart :
            /\ chart[i].delay_percent.num * chart[i].total_flights
                   = 100 * chart[i].delayed_flights * chart[i].delay_percent.den
            /\ chart[i].color = Severity(chart[i].delayed_flights, chart[i].total_flights)

\* C10: the text of the statement an aggregating handler sends is the same
\* for any other origin and destination the user could have entered.
C10_StatementTextIndependentOfInput ==
    (handler \in AggregationHandlers /\ sent # <<>>) =>
        \A origin \in CodeInputs, destination \in CodeInputs :
            HandlerQuery(handler, origin, destination).text = sent[1].text

-----------------------------------------------------------------------------
(* The hour of departure *)

TimeChars == {"0", "1", "2", "3", "4", "5", "9"}
TimeInputs == SeqsUpTo(TimeChars, MaxTimeLen)

\* the stores whose hours are charted: a flight with any DEPARTURE_TIME of up
\* to MaxTimeLen digits, one at 0930 and one with the 2400 of no departure
HourStores ==
    {[flights |-> << Flight(1, 1, 1, 2000, 1, StrCell(DED), StrCell(EDE), StrCell(time),
                            IntCell(15), {"DEPARTURE_DELAY"}),
                     Flight(2, 1, 1, 2000, 1, StrCell(DED), StrCell(EDE),
                            StrCell(<<"0", "9", "3", "0">>), IntCell(-5), {"DEPARTURE_DELAY"}),
                     Flight(3, 1, 1, 2000, 2, StrCell(EDE), StrCell(DED),
                            StrCell(<<"2", "4", "0", "0">>), IntCell(15), {"DEPARTURE_DELAY"}) >>,
      airlines |-> StoreAirlines,
      airports |-> StoreAirports] : time \in TimeInputs}

InitHour ==
    /\ db \in HourStores
    /\ DalInit
    /\ MainInit

NextHour ==
    \/ \E ok \in BOOLEAN : show_delay_percent_by_hour(ok)
    \/ Menu

SpecHour == InitHour /\ [][NextHour]_vars

DigitOf(ch) ==
    CASE ch = "0" -> 0 [] ch = "1" -> 1 [] ch = "2" -> 2 [] ch = "3" -> 3 [] ch = "4" -> 4
      [] ch = "5" -> 5 [] ch = "6" -> 6 [] ch = "7" -> 7 [] ch = "8" -> 8 [] ch = "9" -> 9

\* the two leading digits of a time written with at least four digits: a
\* shorter time has zeros in front
LeadingHour(time) ==
    LET n == Len(time)
        At(i) == IF i + n <= 4 THEN 0
                 ELSE DigitOf(time[IF n >= 4 THEN i ELSE i - (4 - n)])
    IN  10 * At(1) + At(2)

\* the rows of results whose time has the leading hour h
RowsOfHour(h) == {i \in DOMAIN results : LeadingHour(results[i].DEPARTURE_TIME.s) = h}

\* C8: the hour of a row is the number its time, padded with zeros to four
\* digits, starts with; the rows of an hour in 0..23 make up the group of that
\* hour, the rows of any other hour are in no group, and every group's key is
\* in 0..23.
C8_HourGroups ==
    handler = "show_delay_percent_by_hour" =>
        /\ \A i \in DOMAIN chart : chart[i].HOUR \in 0..23
        /\ \A h \in 0..99 :
               IF h \in 0..23 /\ RowsOfHour(h) # {}
               THEN \E i \in DOMAIN chart : /\ chart[i].HOUR = h
                                            /\ chart[i].count = Cardinality(RowsOfHour(h))
               ELSE \A i \in DOMAIN chart : chart[i].HOUR # h

\* C8: 2359 is charted at 23 and 0930 at 9, and the 2400 row is in no group
C8_Witness ==
    /\ handler = "show_delay_percent_by_hour"
    /\ \E i \in DOMAIN results : results[i].DEPARTURE_TIME.s = <<"2", "3", "5", "9">>
    /\ \E i \in DOMAIN results : results[i].DEPARTURE_TIME.s = <<"2", "4", "0", "0">>
    /\ Len(results) = 3
    /\ Len(chart) = 2
    /\ chart[1].HOUR = 9
    /\ chart[2].HOUR = 23

-----------------------------------------------------------------------------
(* The handlers that print rows, and print_results *)

Line(kind, id, delay) == [kind |-> kind, id |-> id, delay |-> delay]

\* a handler that calls a method of the DAL and hands its rows to
\* print_results, which first prints "Got N results."
RunPrinting(h, q, ok, filter_delay_only) ==
    /\ handler = "none"
    /\ handler' = h
    /\ sent' = <<q>>
    /\ failedAt' = IF ok THEN "none" ELSE "execute"
    /\ results' = ExecuteQuery(db, q, ok)
    /\ filter' = filter_delay_only
    /\ idx' = 1
    /\ out' = <<Line("Got results.", Len(results'), 0)>>

printUnchanged == <<db, pc, call, conn, open, closed, nextConn, cursor, result, raised,
                    reported, acquired, ncalls, chart>>

PrintIdInputs == {1, 2}

flight_by_id(id_input, ok) ==
    /\ RunPrinting("flight_by_id",
                   Query("get_flight_by_id", QUERY_FLIGHT_BY_ID, {"id"},
                         [NoArgs EXCEPT !.id = id_input]), ok, FALSE)
    /\ UNCHANGED printUnchanged

\* what datetime.strptime(date_input, '%d/%m/%Y') accepts
PrintDateInputs == {<<1, 1, 2000>>, <<29, 2, 2024>>}

flights_by_date(date, ok) ==
    /\ DatetimeNew(PyInt(date[3]), PyInt(date[2]), PyInt(date[1])) = "ok"
    /\ RunPrinting("flights_by_date",
                   Query("get_flights_by_date", QUERY_FLIGHT_BY_DATE, {"day", "month", "year"},
                         DateArgs(PyInt(date[1]), PyInt(date[2]), PyInt(date[3]))), ok, FALSE)
    /\ UNCHANGED printUnchanged

PrintAirlineInputs == {<<"d", "e", "d">>, <<"%">>}

delayed_flights_by_airline(airline_input, ok) ==
    /\ RunPrinting("delayed_flights_by_airline",
                   Query("get_delayed_flights_by_airline", QUERY_DELAYED_FLIGHT_BY_AIRLINE,
                         {"airline"}, [NoArgs EXCEPT !.pattern = airline_input]), ok, TRUE)
    /\ UNCHANGED printUnchanged

IATA_LENGTH == 3

PrintAirportInputs == {DED, <<"d", "e", "d">>, EDE}

delayed_flights_by_airport(airport_input, ok) ==
    /\ Len(airport_input) = IATA_LENGTH
    /\ Letters(airport_input)
    /\ RunPrinting("delayed_flights_by_airport",
                   Query("get_delayed_flights_by_airport", QUERY_DELAYED_FLIGHT_BY_AIRPORT,
                         {"airport"}, [NoArgs EXCEPT !.pattern = airport_input]), ok, TRUE)
    /\ UNCHANGED printUnchanged

\* a filter that drops every row not delayed, asked for or not
SkippedWhenNotDelayed(filter_delay_only, delay) == delay <= 0

\* if filter_delay_only and delay <= 0: continue
Skipped(filter_delay_only, delay) == filter_delay_only /\ delay <= 0

\* one turn of the loop of print_results
PrintResultsRow ==
    /\ handler \in PrintingHandlers
    /\ idx <= Len(results)
    /\ LET row == results[idx]
       IN  IF row.DELAY.t = "TEXT"
           THEN \* int(result['DELAY']) raises ValueError: report and return
                /\ out' = Append(out, Line("Error showing results: ", row.ID, 0))
                /\ idx' = Len(results) + 1
           ELSE LET delay == IF row.DELAY.t # "NULL" THEN row.DELAY.v ELSE 0
                IN  /\ idx' = idx + 1
                    /\ out' = IF Skipped(filter, delay) THEN out
                              ELSE IF delay > 0
                                   THEN Append(out, Line("Delay: Minutes", row.ID, delay))
                                   ELSE Append(out, Line("flight", row.ID, 0))
    /\ UNCHANGED <<db, dalVars, handler, results, filter, chart>>

\* the stores whose rows are printed: up to MaxRows flights of one airline,
\* with a departure delay that is NULL, an integer, or a text that is no number
PrintShapes == {[delay |-> Null, present |-> {}],
                [delay |-> Null, present |-> {"ARRIVAL_DELAY"}],
                [delay |-> IntCell(15), present |-> {"DEPARTURE_DELAY", "ARRIVAL_DELAY"}],
                [delay |-> IntCell(-5), present |-> {"DEPARTURE_DELAY", "ARRIVAL_DELAY"}],
                [delay |-> TextCell, present |-> {"DEPARTURE_DELAY", "ARRIVAL_DELAY"}]}

PrintStores ==
    {[flights |-> [i \in DOMAIN shapes |->
                      Flight(i, 1, 1, 2000, 1, StrCell(DED), StrCell(EDE),
                             StrCell(<<"0", "9", "3", "0">>), shapes[i].delay,
                             shapes[i].present)],
      airlines |-> StoreAirlines,
      airports |-> StoreAirports] : shapes \in SeqsUpTo(PrintShapes, MaxRows)}

InitPrint ==
    /\ db \in PrintStores
    /\ DalInit
    /\ MainInit

NextPrint ==
    \/ \E id_input \in PrintIdInputs, ok \in BOOLEAN : flight_by_id(id_input, ok)
    \/ \E date \in PrintDateInputs, ok \in BOOLEAN : flights_by_date(date, ok)
    \/ \E airline_input \in PrintAirlineInputs, ok \in BOOLEAN :
           delayed_flights_by_airline(airline_input, ok)
    \/ \E airport_input \in PrintAirportInputs, ok \in BOOLEAN :
           delayed_flights_by_airport(airport_input, ok)
    \/ PrintResultsRow
    \/ Menu

SpecPrint == InitPrint /\ [][NextPrint]_vars

\* the lines printed for a row
LinesOf(row) == {i \in DOMAIN out : out[i].kind # "Got results." /\ out[i].id = row.ID}

Printed == handler \in PrintingHandlers /\ idx > Len(results)

\* C9: every row returned by the DAL whose departure delay is null is printed
\* as a flight that is not delayed, whether print_results filters or not.
C9_NullDelayRowPrinted ==
    Printed =>
        \A i \in DOMAIN results :
            results[i].DELAY.t = "NULL" =>
                \E k \in LinesOf(results[i]) : out[k].kind = "flight"

\* C9, amended: without filter_delay_only a row whose departure delay is null
\* is printed once, as a flight that is not delayed, unless an earlier row's
\* DELAY was no integer and print_results returned there; with
\* filter_delay_only no line is printed for it.
C9_NullDelayRowPrintedUnlessFiltered ==
    Printed =>
        \A i \in DOMAIN results :
            results[i].DELAY.t = "NULL" =>
                IF filter \/ \E j \in 1..(i - 1) : results[j].DELAY.t = "TEXT"
                THEN LinesOf(results[i]) = {}
                ELSE /\ Cardinality(LinesOf(results[i])) = 1
                     /\ \A k \in LinesOf(results[i]) : out[k].kind = "flight"

\* C9: flights_by_date printed a row with a null delay as not delayed, next to
\* a delayed one
C9_Witness ==
    /\ Printed
    /\ handler = "flights_by_date"
    /\ \E i \in DOMAIN results :
           /\ results[i].DELAY.t = "NULL"
           /\ \E k \in LinesOf(results[i]) : out[k].kind = "flight"
    /\ \E k \in DOMAIN out : out[k].kind = "Delay: Minutes"

=============================================================================
